---- MODULE Spec2Model ----
(***************************************************************************)
(* Model of app/src/main/cpp/llama-android.cpp: the three JNI entry points *)
(* nativeInit, nativeGenerate and nativeDestroy around the llama library.  *)
(* The shim is single-threaded: one entry point runs at a time, statement  *)
(* by statement (pc).  The library, the JNI runtime and the file system    *)
(* are the environment: every result they hand back is drawn from a small  *)
(* set.  trace records, for the entry point in progress, every external    *)
(* call the code makes with its result; heap records every library object  *)
(* ever created and how often it was freed.                                *)
(***************************************************************************)
EXTENDS Integers, Sequences, FiniteSets

\* ------------------------------------------------------------------ bounds
\* entry-point calls the host makes in one run
MaxCalls == 3
\* the sampler produces an end-of-generation token at the latest after this
\* many iterations of one generation loop
MaxLoop == 2

\* --------------------------------------------------------------- constants
\* ctx_params.n_ctx, returned by llama_n_ctx
N_CTX == 2048
INT_MAX == 2147483647
\* tokens the sampler can return; llama_vocab_is_eog is true of EogToken only
EogToken == 2
TextToken == 7
\* results of llama_decode: 0 success, 1 no KV slot, -1 error
DecodeResults == {0, 1, -1}
\* results of llama_token_to_piece: negative error, else the piece's length
PieceResults == {-1, 0, 1}
\* results of the length query llama_tokenize(..., nullptr, 0, ...): minus the
\* token count, or a non-negative value when nothing is to be tokenized
TokLenResults == {-2045, -2036, -1, 0}
\* max_tokens arguments the host passes
MaxTokensArgs == {-1, 1, 20, INT_MAX}

\* the strings nativeGenerate returns: a sequence of pieces
EmptyString == << >>
Placeholder == <<"CTX_RECREATE_FAILED">>

NullWrapper == [model |-> 0, ctx |-> 0, sampler |-> 0]

VARIABLES
    pc,            \* statement the running entry point is at; "idle" between calls
    fn,            \* entry point running, or the last one that returned
    callNo,        \* number of entry-point calls made so far
    handle,        \* the handle the host holds: 0 or the wrapper's address
    arg_handle,    \* jlong handle argument of the running call
    heap,          \* every object created so far: kind, frees, born, users
    wrapper,       \* fields of the LlamaWrapper the handle points to (during
                   \* nativeInit: its locals model, ctx, sampler, copied into
                   \* the new LlamaWrapper at line 134)
    backend,       \* <<llama_backend_init calls, llama_backend_free calls>>
    str,           \* the JNI string of this call: none, null, held, released
    strStat,       \* [rel |-> releases, bad |-> read after release] of this call
    n_prompt_tokens,
    max_tokens,    \* the limit in effect (the parameter, reassigned at line 252)
    arg_max_tokens,\* jint max_tokens as the host passed it
    i,             \* loop counter of the generation loop
    result,        \* std::string result: the pieces appended
    new_token_id,
    ret,           \* jlong returned by nativeInit
    ret_str,       \* jstring returned by nativeGenerate
    entry_ctx,     \* wrapper->ctx when the running nativeGenerate was entered
    trace          \* external calls of the running entry point, with results

vars == <<pc, fn, callNo, handle, arg_handle, heap, wrapper, backend, str,
          strStat, n_prompt_tokens, max_tokens, arg_max_tokens, i, result,
          new_token_id, ret, ret_str, entry_ctx, trace>>

\* ------------------------------------------------------------------ helpers
Call(f, o, k, r) == [fn |-> f, obj |-> o, n |-> k, res |-> r]

Log(f, o, k, r) == Append(trace, Call(f, o, k, r))

\* a library constructor returning a new object
Alloc(h, kind) ==
    Append(h, [kind |-> kind, frees |-> 0, born |-> callNo, users |-> {}])

\* a library destructor (or delete) applied to object id
FreeObj(h, id) ==
    IF id \in DOMAIN h THEN [h EXCEPT ![id].frees = @ + 1] ELSE h

\* llama_decode / llama_sampler_sample applied to context id
UseCtx(h, id) ==
    IF id \in DOMAIN h THEN [h EXCEPT ![id].users = @ \cup {callNo}] ELSE h

\* a read of the JNI string's characters
ReadStr(s) == [s EXCEPT !.bad = @ \/ (str = "released")]

\* env->ReleaseStringUTFChars
RelStr(s) == [s EXCEPT !.rel = @ + 1]

\* the locals of an entry point at its first statement
Locals0(mt, c) ==
    /\ n_prompt_tokens' = 0
    /\ max_tokens' = mt
    /\ arg_max_tokens' = mt
    /\ i' = 0
    /\ result' = << >>
    /\ new_token_id' = 0
    /\ ret' = 0
    /\ ret_str' = EmptyString
    /\ entry_ctx' = c

Enter(f, h) ==
    /\ pc = "idle"
    /\ callNo < MaxCalls
    /\ fn' = f
    /\ callNo' = callNo + 1
    /\ arg_handle' = h
    /\ trace' = << >>
    /\ strStat' = [rel |-> 0, bad |-> FALSE]

Init ==
    /\ pc = "idle"
    /\ fn = "none"
    /\ callNo = 0
    /\ handle = 0
    /\ arg_handle = 0
    /\ heap = << >>
    /\ wrapper = NullWrapper
    /\ backend = <<0, 0>>
    /\ str = "none"
    /\ strStat = [rel |-> 0, bad |-> FALSE]
    /\ n_prompt_tokens = 0
    /\ max_tokens = 0
    /\ arg_max_tokens = 0
    /\ i = 0
    /\ result = << >>
    /\ new_token_id = 0
    /\ ret = 0
    /\ ret_str = EmptyString
    /\ entry_ctx = 0
    /\ trace = << >>

\* ------------------------------------------------------------- nativeInit
\* The host asks for a model only while it holds no handle.
nativeInit_call ==
    /\ handle = 0
    /\ Enter("init", 0)
    /\ Locals0(0, 0)
    /\ \E got \in {"held", "null"} : str' = got
    /\ pc' = "init_fopen"
    /\ UNCHANGED <<handle, heap, wrapper, backend>>

\* fopen(model_path, "rb"); with a null path the call is undefined: it
\* either ends the process or fails like a missing file.
init_fopen ==
    /\ pc = "init_fopen"
    /\ \E file \in {0, 1}, crash \in BOOLEAN :
        /\ str = "null" => file = 0
        /\ crash => str = "null"
        /\ IF crash
           THEN /\ pc' = "aborted"
                /\ UNCHANGED <<trace, strStat, str, ret>>
           ELSE /\ trace' = Log("fopen", 0, 0, file)
                /\ IF file = 0
                   THEN /\ strStat' = IF str = "held"
                                      THEN RelStr(ReadStr(strStat))
                                      ELSE strStat
                        /\ str' = IF str = "held" THEN "released" ELSE str
                        /\ ret' = 0
                        /\ pc' = "idle"
                   ELSE /\ strStat' = ReadStr(strStat)
                        /\ pc' = "init_backend"
                        /\ UNCHANGED <<str, ret>>
    /\ UNCHANGED <<fn, callNo, handle, arg_handle, heap, wrapper, backend,
                   n_prompt_tokens, max_tokens, arg_max_tokens, i, result,
                   new_token_id, ret_str, entry_ctx>>

init_backend ==
    /\ pc = "init_backend"
    /\ backend' = <<backend[1] + 1, backend[2]>>
    /\ trace' = Log("llama_backend_init", 0, 0, 0)
    /\ pc' = "init_load"
    /\ UNCHANGED <<fn, callNo, handle, arg_handle, heap, wrapper, str, strStat,
                   n_prompt_tokens, max_tokens, arg_max_tokens, i, result,
                   new_token_id, ret, ret_str, entry_ctx>>

\* llama_model_load_from_file, the release of model_path, and the failure
\* return
init_load ==
    /\ pc = "init_load"
    /\ \E ok \in BOOLEAN :
        LET model == IF ok THEN Len(heap) + 1 ELSE 0 IN
        /\ heap' = IF ok THEN Alloc(heap, "model") ELSE heap
        /\ strStat' = RelStr(ReadStr(strStat))
        /\ str' = "released"
        /\ wrapper' = [NullWrapper EXCEPT !.model = model]
        /\ IF model = 0
           THEN /\ backend' = <<backend[1], backend[2] + 1>>
                /\ trace' = Append(Log("llama_model_load_from_file", 0, 0, 0),
                                   Call("llama_backend_free", 0, 0, 0))
                /\ ret' = 0
                /\ pc' = "idle"
           ELSE /\ trace' = Log("llama_model_load_from_file", 0, 0, model)
                /\ pc' = "init_ctx"
                /\ UNCHANGED <<backend, ret>>
    /\ UNCHANGED <<fn, callNo, handle, arg_handle, n_prompt_tokens, max_tokens,
                   arg_max_tokens, i, result, new_token_id, ret_str, entry_ctx>>

\* the model is freed when the context cannot be created (line 117)
InitCtxFailHeap_leak(h, model) == h

InitCtxFailHeap(h, model) == FreeObj(h, model)

\* llama_init_from_model and the failure return
init_ctx ==
    /\ pc = "init_ctx"
    /\ \E ok \in BOOLEAN :
        LET ctx == IF ok THEN Len(heap) + 1 ELSE 0 IN
        /\ trace' = IF ok
                    THEN Log("llama_init_from_model", wrapper.model, 0, ctx)
                    ELSE Log("llama_init_from_model", wrapper.model, 0, 0)
                         \o << Call("llama_model_free", wrapper.model, 0, 0),
                               Call("llama_backend_free", 0, 0, 0) >>
        /\ IF ctx = 0
           THEN /\ heap' = InitCtxFailHeap(heap, wrapper.model)
                /\ backend' = <<backend[1], backend[2] + 1>>
                /\ wrapper' = NullWrapper
                /\ ret' = 0
                /\ pc' = "idle"
           ELSE /\ heap' = Alloc(heap, "ctx")
                /\ wrapper' = [wrapper EXCEPT !.ctx = ctx]
                /\ pc' = "init_sampler"
                /\ UNCHANGED <<backend, ret>>
    /\ UNCHANGED <<fn, callNo, handle, arg_handle, str, strStat,
                   n_prompt_tokens, max_tokens, arg_max_tokens, i, result,
                   new_token_id, ret_str, entry_ctx>>

\* llama_sampler_chain_init (which allocates with new and never returns
\* null), new LlamaWrapper{model, ctx, sampler}, and the return of the handle
init_sampler ==
    /\ pc = "init_sampler"
    /\ LET sampler == Len(heap) + 1
           wrap == Len(heap) + 2 IN
        /\ heap' = Alloc(Alloc(heap, "sampler"), "wrapper")
        /\ wrapper' = [wrapper EXCEPT !.sampler = sampler]
        /\ trace' = Log("llama_sampler_chain_init", 0, 0, sampler)
        /\ ret' = wrap
        /\ handle' = wrap
    /\ pc' = "idle"
    /\ UNCHANGED <<fn, callNo, arg_handle, backend, str, strStat,
                   n_prompt_tokens, max_tokens, arg_max_tokens, i, result,
                   new_token_id, ret_str, entry_ctx>>

\* --------------------------------------------------------- nativeGenerate
\* The host passes the handle it holds, or 0 (what a failed nativeInit
\* returned).
nativeGenerate_call ==
    /\ \E h \in {0, handle}, mt \in MaxTokensArgs :
        /\ Enter("generate", h)
        /\ Locals0(mt, IF h = 0 THEN 0 ELSE wrapper.ctx)
    /\ str' = "none"
    /\ pc' = "gen_check"
    /\ UNCHANGED <<handle, heap, wrapper, backend>>
\* if (!wrapper) at lines 163 and 427
HandleIsNull_never(h) == FALSE

HandleIsNull(h) == h = 0

\* the wrapper and model null checks (lines 162-174)
gen_check ==
    /\ pc = "gen_check"
    /\ IF HandleIsNull(arg_handle) \/ wrapper.model = 0
       THEN /\ ret_str' = EmptyString
            /\ pc' = "idle"
       ELSE /\ pc' = "gen_free_old_ctx"
            /\ UNCHANGED ret_str
    /\ UNCHANGED <<fn, callNo, handle, arg_handle, heap, wrapper, backend, str,
                   strStat, n_prompt_tokens, max_tokens, arg_max_tokens, i,
                   result, new_token_id, ret, entry_ctx, trace>>

\* llama_free(wrapper->ctx) of the context found in the wrapper (line 181)
OldCtxFree_skipped(h, c) == h

OldCtxFree(h, c) == FreeObj(h, c)

\* a version of the step below that keeps a context it finds and goes on
\* to the prompt without creating one
gen_free_old_ctx_reuse ==
    /\ pc = "gen_free_old_ctx"
    /\ pc' = IF wrapper.ctx # 0 THEN "gen_get_prompt" ELSE "gen_new_ctx"
    /\ UNCHANGED <<fn, callNo, handle, arg_handle, heap, wrapper, backend, str,
                   strStat, n_prompt_tokens, max_tokens, arg_max_tokens, i,
                   result, new_token_id, ret, ret_str, entry_ctx, trace>>

\* if (wrapper->ctx) { llama_free(wrapper->ctx); wrapper->ctx = nullptr; }
gen_free_old_ctx ==
    /\ pc = "gen_free_old_ctx"
    /\ IF wrapper.ctx # 0
       THEN /\ heap' = OldCtxFree(heap, wrapper.ctx)
            /\ trace' = Log("llama_free", wrapper.ctx, 0, 0)
            /\ wrapper' = [wrapper EXCEPT !.ctx = 0]
       ELSE UNCHANGED <<heap, trace, wrapper>>
    /\ pc' = "gen_new_ctx"
    /\ UNCHANGED <<fn, callNo, handle, arg_handle, backend, str, strStat,
                   n_prompt_tokens, max_tokens, arg_max_tokens, i, result,
                   new_token_id, ret, ret_str, entry_ctx>>

\* llama_new_context_with_model and the failure return
gen_new_ctx ==
    /\ pc = "gen_new_ctx"
    /\ \E ok \in BOOLEAN :
        LET ctx == IF ok THEN Len(heap) + 1 ELSE 0 IN
        /\ heap' = IF ok THEN Alloc(heap, "ctx") ELSE heap
        /\ wrapper' = [wrapper EXCEPT !.ctx = ctx]
        /\ trace' = Log("llama_new_context_with_model", wrapper.model, 0, ctx)
        /\ IF ctx = 0
           THEN /\ ret_str' = Placeholder
                /\ pc' = "idle"
           ELSE /\ pc' = "gen_get_prompt"
                /\ UNCHANGED ret_str
    /\ UNCHANGED <<fn, callNo, handle, arg_handle, backend, str, strStat,
                   n_prompt_tokens, max_tokens, arg_max_tokens, i, result,
                   new_token_id, ret, entry_ctx>>

\* env->GetStringUTFChars(prompt_jstr), the null check and strlen(prompt)
gen_get_prompt ==
    /\ pc = "gen_get_prompt"
    /\ \E got \in {"held", "null"} :
        /\ str' = got
        /\ trace' = Log("GetStringUTFChars", 0, 0, IF got = "held" THEN 1 ELSE 0)
        /\ IF got = "null"
           THEN /\ ret_str' = EmptyString
                /\ pc' = "idle"
                /\ UNCHANGED strStat
           ELSE /\ strStat' = ReadStr(strStat)
                /\ pc' = "gen_get_vocab"
                /\ UNCHANGED ret_str
    /\ UNCHANGED <<fn, callNo, handle, arg_handle, heap, wrapper, backend,
                   n_prompt_tokens, max_tokens, arg_max_tokens, i, result,
                   new_token_id, ret, entry_ctx>>

\* the release of prompt on the null-vocab return (line 217)
VocabFailStr_kept(s) == s

VocabFailStr(s) == RelStr(s)

\* llama_model_get_vocab and the failure return
gen_get_vocab ==
    /\ pc = "gen_get_vocab"
    /\ \E vocab \in {0, 1} :
        /\ trace' = Log("llama_model_get_vocab", wrapper.model, 0, vocab)
        /\ IF vocab = 0
           THEN /\ strStat' = VocabFailStr(strStat)
                /\ str' = "released"
                /\ ret_str' = EmptyString
                /\ pc' = "idle"
           ELSE /\ pc' = "gen_tokenize_len"
                /\ UNCHANGED <<strStat, str, ret_str>>
    /\ UNCHANGED <<fn, callNo, handle, arg_handle, heap, wrapper, backend,
                   n_prompt_tokens, max_tokens, arg_max_tokens, i, result,
                   new_token_id, ret, entry_ctx>>

\* n_prompt_tokens = -llama_tokenize(vocab, prompt, prompt_len, nullptr, 0, ..)
\* and the failure return
gen_tokenize_len ==
    /\ pc = "gen_tokenize_len"
    /\ \E r \in TokLenResults :
        /\ n_prompt_tokens' = -r
        /\ trace' = Log("llama_tokenize", 0, 0, r)
        /\ IF -r <= 0
           THEN /\ strStat' = RelStr(ReadStr(strStat))
                /\ str' = "released"
                /\ ret_str' = EmptyString
                /\ pc' = "idle"
           ELSE /\ strStat' = ReadStr(strStat)
                /\ pc' = "gen_check_ctx_len"
                /\ UNCHANGED <<str, ret_str>>
    /\ UNCHANGED <<fn, callNo, handle, arg_handle, heap, wrapper, backend,
                   max_tokens, arg_max_tokens, i, result, new_token_id, ret,
                   entry_ctx>>

\* n_prompt_tokens + max_tokens in 32-bit signed arithmetic overflows
AddOverflows(a, b) == b > 0 /\ a > INT_MAX - b

\* if (n_prompt_tokens + max_tokens > n_ctx) max_tokens = n_ctx -
\* n_prompt_tokens - 10.  When the sum overflows the comparison is undefined:
\* the wrapped sum is negative (no adjustment), a build that compares
\* max_tokens with n_ctx - n_prompt_tokens adjusts.
gen_check_ctx_len ==
    /\ pc = "gen_check_ctx_len"
    /\ LET n_ctx == N_CTX IN
       \E over \in BOOLEAN :
        /\ ~AddOverflows(n_prompt_tokens, max_tokens) =>
               over = (n_prompt_tokens + max_tokens > n_ctx)
        /\ max_tokens' = IF over THEN n_ctx - n_prompt_tokens - 10
                         ELSE max_tokens
        /\ trace' = Log("llama_n_ctx", wrapper.ctx, 0, n_ctx)
    /\ pc' = "gen_tokenize_fill"
    /\ UNCHANGED <<fn, callNo, handle, arg_handle, heap, wrapper, backend, str,
                   strStat, n_prompt_tokens, arg_max_tokens, i, result,
                   new_token_id, ret, ret_str, entry_ctx>>

\* what the buffer-filling llama_tokenize can return for a buffer of n
\* tokens: n, or minus the count it needs when that is larger
TokFillResults(n) == {n, -(n + 1)}

\* actual_tokens = llama_tokenize(vocab, prompt, prompt_len,
\* tokens_list.data(), tokens_list.size(), ..), the log of a mismatch
\* (lines 273-275 log it and go on) and the release of prompt
gen_tokenize_fill ==
    /\ pc = "gen_tokenize_fill"
    /\ \E actual \in TokFillResults(n_prompt_tokens) :
        /\ trace' = Log("llama_tokenize", 0, n_prompt_tokens, actual)
        /\ strStat' = RelStr(ReadStr(strStat))
        /\ str' = "released"
    /\ pc' = "gen_decode_prompt"
    /\ UNCHANGED <<fn, callNo, handle, arg_handle, heap, wrapper, backend,
                   n_prompt_tokens, max_tokens, arg_max_tokens, i, result,
                   new_token_id, ret, ret_str, entry_ctx>>

\* decode_result != 0 (line 331), llama_decode(..) != 0 (line 380)
DecodeFailed_negative(r) == r < 0

DecodeFailed(r) == r # 0

\* llama_decode(wrapper->ctx, batch of the prompt) and the failure return
gen_decode_prompt ==
    /\ pc = "gen_decode_prompt"
    /\ \E r \in DecodeResults :
        /\ trace' = Log("llama_decode", wrapper.ctx, n_prompt_tokens, r)
        /\ heap' = UseCtx(heap, wrapper.ctx)
        /\ IF DecodeFailed(r)
           THEN /\ ret_str' = EmptyString
                /\ pc' = "idle"
           ELSE /\ pc' = "gen_reserve"
                /\ UNCHANGED ret_str
    /\ UNCHANGED <<fn, callNo, handle, arg_handle, wrapper, backend, str,
                   strStat, n_prompt_tokens, max_tokens, arg_max_tokens, i,
                   result, new_token_id, ret, entry_ctx>>

\* max_tokens * 4 in 32-bit signed arithmetic overflows
Mul4Overflows(m) == m > INT_MAX \div 4 \/ m < -(INT_MAX \div 4) - 1

\* result.reserve(max_tokens * 4): a negative int converts to a size_t above
\* max_size(), reserve throws std::length_error, and the exception leaving
\* the JNI function ends the process.  An overflowing product is undefined:
\* the build either reserves (or fails to) some size.
gen_reserve ==
    /\ pc = "gen_reserve"
    /\ \E thrown \in BOOLEAN :
        /\ ~Mul4Overflows(max_tokens) => thrown = (max_tokens * 4 < 0)
        /\ pc' = IF thrown THEN "aborted" ELSE "gen_loop"
        /\ trace' = Log("reserve", 0, max_tokens, IF thrown THEN -1 ELSE 0)
    /\ i' = 0
    /\ result' = << >>
    /\ UNCHANGED <<fn, callNo, handle, arg_handle, heap, wrapper, backend, str,
                   strStat, n_prompt_tokens, max_tokens, arg_max_tokens,
                   new_token_id, ret, ret_str, entry_ctx>>

\* i < max_tokens (line 349)
LoopCond_inclusive(k, m) == k <= m

LoopCond(k, m) == k < m

\* the for-loop's test; after the loop, return NewStringUTF(result.c_str())
gen_loop ==
    /\ pc = "gen_loop"
    /\ IF LoopCond(i, max_tokens)
       THEN /\ pc' = "gen_sample"
            /\ UNCHANGED ret_str
       ELSE /\ ret_str' = result
            /\ pc' = "idle"
    /\ UNCHANGED <<fn, callNo, handle, arg_handle, heap, wrapper, backend, str,
                   strStat, n_prompt_tokens, max_tokens, arg_max_tokens, i,
                   result, new_token_id, ret, entry_ctx, trace>>

\* tokens the sampler can return in iteration k
SampleResults(k) == IF k >= MaxLoop THEN {EogToken} ELSE {EogToken, TextToken}

\* llama_sampler_sample, llama_vocab_is_eog and the break on end of
\* generation
gen_sample ==
    /\ pc = "gen_sample"
    /\ \E tok \in SampleResults(i) :
        /\ new_token_id' = tok
        /\ trace' = Log("llama_sampler_sample", wrapper.ctx, 0, tok)
        /\ heap' = UseCtx(heap, wrapper.ctx)
        /\ IF tok = EogToken
           THEN /\ ret_str' = result
                /\ pc' = "idle"
           ELSE /\ pc' = "gen_piece"
                /\ UNCHANGED ret_str
    /\ UNCHANGED <<fn, callNo, handle, arg_handle, wrapper, backend, str,
                   strStat, n_prompt_tokens, max_tokens, arg_max_tokens, i,
                   result, ret, entry_ctx>>

\* the piece of n characters llama_token_to_piece wrote for a token
PieceOf(tok, n) == "p"

\* llama_token_to_piece, the break on a negative result, result.append
gen_piece ==
    /\ pc = "gen_piece"
    /\ \E n \in PieceResults :
        /\ trace' = Log("llama_token_to_piece", new_token_id, 0, n)
        /\ IF n < 0
           THEN /\ ret_str' = result
                /\ pc' = "idle"
                /\ UNCHANGED result
           ELSE /\ result' = IF n > 0
                             THEN Append(result, PieceOf(new_token_id, n))
                             ELSE result
                /\ pc' = "gen_decode_next"
                /\ UNCHANGED ret_str
    /\ UNCHANGED <<fn, callNo, handle, arg_handle, heap, wrapper, backend, str,
                   strStat, n_prompt_tokens, max_tokens, arg_max_tokens, i,
                   new_token_id, ret, entry_ctx>>

\* llama_decode(wrapper->ctx, batch of new_token_id), the break on failure,
\* n_decoded++ and i++
gen_decode_next ==
    /\ pc = "gen_decode_next"
    /\ \E r \in DecodeResults :
        /\ trace' = Log("llama_decode", wrapper.ctx, 1, r)
        /\ heap' = UseCtx(heap, wrapper.ctx)
        /\ IF DecodeFailed(r)
           THEN /\ ret_str' = result
                /\ pc' = "idle"
                /\ UNCHANGED i
           ELSE /\ i' = i + 1
                /\ pc' = "gen_loop"
                /\ UNCHANGED ret_str
    /\ UNCHANGED <<fn, callNo, handle, arg_handle, wrapper, backend, str,
                   strStat, n_prompt_tokens, max_tokens, arg_max_tokens,
                   result, new_token_id, ret, entry_ctx>>

\* ---------------------------------------------------------- nativeDestroy
\* The host passes the handle it holds, or 0.
nativeDestroy_call ==
    /\ \E h \in {0, handle} :
        /\ Enter("destroy", h)
        /\ Locals0(0, 0)
    /\ str' = "none"
    /\ pc' = "destroy_check"
    /\ UNCHANGED <<handle, heap, wrapper, backend>>

\* if (!wrapper) return;
destroy_check ==
    /\ pc = "destroy_check"
    /\ pc' = IF HandleIsNull(arg_handle) THEN "idle" ELSE "destroy_sampler"
    /\ UNCHANGED <<fn, callNo, handle, arg_handle, heap, wrapper, backend, str,
                   strStat, n_prompt_tokens, max_tokens, arg_max_tokens, i,
                   result, new_token_id, ret, ret_str, entry_ctx, trace>>

\* if (wrapper->sampler) { llama_sampler_free(..); wrapper->sampler = nullptr; }
destroy_sampler ==
    /\ pc = "destroy_sampler"
    /\ IF wrapper.sampler # 0
       THEN /\ heap' = FreeObj(heap, wrapper.sampler)
            /\ trace' = Log("llama_sampler_free", wrapper.sampler, 0, 0)
            /\ wrapper' = [wrapper EXCEPT !.sampler = 0]
       ELSE UNCHANGED <<heap, trace, wrapper>>
    /\ pc' = "destroy_ctx"
    /\ UNCHANGED <<fn, callNo, handle, arg_handle, backend, str, strStat,
                   n_prompt_tokens, max_tokens, arg_max_tokens, i, result,
                   new_token_id, ret, ret_str, entry_ctx>>

\* if (wrapper->ctx) { llama_free(wrapper->ctx); wrapper->ctx = nullptr; }
destroy_ctx ==
    /\ pc = "destroy_ctx"
    /\ IF wrapper.ctx # 0
       THEN /\ heap' = FreeObj(heap, wrapper.ctx)
            /\ trace' = Log("llama_free", wrapper.ctx, 0, 0)
            /\ wrapper' = [wrapper EXCEPT !.ctx = 0]
       ELSE UNCHANGED <<heap, trace, wrapper>>
    /\ pc' = "destroy_model"
    /\ UNCHANGED <<fn, callNo, handle, arg_handle, backend, str, strStat,
                   n_prompt_tokens, max_tokens, arg_max_tokens, i, result,
                   new_token_id, ret, ret_str, entry_ctx>>

\* if (wrapper->model) { llama_model_free(..); wrapper->model = nullptr; }
destroy_model ==
    /\ pc = "destroy_model"
    /\ IF wrapper.model # 0
       THEN /\ heap' = FreeObj(heap, wrapper.model)
            /\ trace' = Log("llama_model_free", wrapper.model, 0, 0)
            /\ wrapper' = [wrapper EXCEPT !.model = 0]
       ELSE UNCHANGED <<heap, trace, wrapper>>
    /\ pc' = "destroy_delete"
    /\ UNCHANGED <<fn, callNo, handle, arg_handle, backend, str, strStat,
                   n_prompt_tokens, max_tokens, arg_max_tokens, i, result,
                   new_token_id, ret, ret_str, entry_ctx>>

\* delete wrapper; llama_backend_free();  The host's handle is dead from
\* here on: the lifecycle is init, generate*, destroy.
destroy_delete ==
    /\ pc = "destroy_delete"
    /\ heap' = FreeObj(heap, arg_handle)
    /\ backend' = <<backend[1], backend[2] + 1>>
    /\ trace' = Log("llama_backend_free", 0, 0, 0)
    /\ wrapper' = NullWrapper
    /\ handle' = 0
    /\ pc' = "idle"
    /\ UNCHANGED <<fn, callNo, arg_handle, str, strStat, n_prompt_tokens,
                   max_tokens, arg_max_tokens, i, result, new_token_id, ret,
                   ret_str, entry_ctx>>

Next ==
    \/ nativeInit_call
    \/ init_fopen
    \/ init_backend
    \/ init_load
    \/ init_ctx
    \/ init_sampler
    \/ nativeGenerate_call
    \/ gen_check
    \/ gen_free_old_ctx
    \/ gen_new_ctx
    \/ gen_get_prompt
    \/ gen_get_vocab
    \/ gen_tokenize_len
    \/ gen_check_ctx_len
    \/ gen_tokenize_fill
    \/ gen_decode_prompt
    \/ gen_reserve
    \/ gen_loop
    \/ gen_sample
    \/ gen_piece
    \/ gen_decode_next
    \/ nativeDestroy_call
    \/ destroy_check
    \/ destroy_sampler
    \/ destroy_ctx
    \/ destroy_model
    \/ destroy_delete

Spec == Init /\ [][Next]_vars

\* ------------------------------------------------------ reading the trace
\* the entry point f has returned to the host
Returned(f) == pc = "idle" /\ fn = f

Idx(f) == {k \in DOMAIN trace : trace[k].fn = f}

Count(f) == Cardinality(Idx(f))

Max0(x) == IF x < 0 THEN 0 ELSE x

CtxUsers == {"llama_decode", "llama_sampler_sample"}

\* the decode of the prompt: the decode no sample call precedes
PromptDecodes ==
    {k \in Idx("llama_decode") :
        \A j \in Idx("llama_sampler_sample") : j > k}

\* the length query and the buffer-filling call of llama_tokenize
LenQueries == {k \in Idx("llama_tokenize") : trace[k].n = 0}

Fills == {k \in Idx("llama_tokenize") : trace[k].n > 0}

\* a failure the code finds before the generation loop
PreLoopFailure ==
    \/ arg_handle = 0
    \/ \E k \in DOMAIN trace :
        \/ /\ trace[k].fn \in {"llama_new_context_with_model",
                               "GetStringUTFChars", "llama_model_get_vocab"}
           /\ trace[k].res = 0
        \/ k \in LenQueries /\ -trace[k].res <= 0
        \/ k \in PromptDecodes /\ trace[k].res # 0

\* a failure inside the generation loop
LoopFailure ==
    \E k \in DOMAIN trace :
        \/ trace[k].fn = "llama_token_to_piece" /\ trace[k].res < 0
        \/ k \in Idx("llama_decode") \ PromptDecodes /\ trace[k].res # 0

\* what ends the generation loop before the limit
StopEvent(k) ==
    \/ trace[k].fn = "llama_sampler_sample" /\ trace[k].res = EogToken
    \/ trace[k].fn = "llama_token_to_piece" /\ trace[k].res < 0
    \/ k \in Idx("llama_decode") \ PromptDecodes /\ trace[k].res # 0

\* the pieces the library produced with a positive length, in order
RECURSIVE PiecesUpTo(_)
PiecesUpTo(k) ==
    IF k = 0 THEN << >>
    ELSE IF trace[k].fn = "llama_token_to_piece" /\ trace[k].res > 0
         THEN Append(PiecesUpTo(k - 1), PieceOf(trace[k].obj, trace[k].res))
         ELSE PiecesUpTo(k - 1)

Appended == PiecesUpTo(Len(trace))

CtxObjects == {id \in DOMAIN heap : heap[id].kind = "ctx"}

\* ------------------------------------------------------------------ claims

\* C1: a nativeGenerate call that passes the null checks frees the context
\* it finds in the wrapper and creates a new one before any tokenize, decode
\* or sample call; every decode and sample call of the call uses the context
\* created in that call, and no context is decoded or sampled by two calls.
C1_FreshContextPerGenerate ==
    /\ fn = "generate" =>
        \A k \in DOMAIN trace :
            /\ trace[k].fn \in CtxUsers \cup {"llama_tokenize"} =>
                \E j \in Idx("llama_new_context_with_model") :
                    /\ j < k
                    /\ trace[j].res # 0
                    /\ entry_ctx # 0 =>
                        \E m \in Idx("llama_free") :
                            m < j /\ trace[m].obj = entry_ctx
                                  /\ heap[entry_ctx].frees = 1
            /\ trace[k].fn \in CtxUsers =>
                /\ trace[k].obj \in CtxObjects
                /\ heap[trace[k].obj].born = callNo
                /\ heap[trace[k].obj].frees = 0
    /\ \A id \in DOMAIN heap : Cardinality(heap[id].users) <= 1

\* two contexts, each decoded by its own generate call
C1_Witness ==
    /\ fn = "generate"
    /\ Count("llama_decode") > 0
    /\ entry_ctx # 0
    /\ Cardinality({id \in CtxObjects : heap[id].users # {}}) >= 2

\* C2 as stated: whenever nativeGenerate finds a failure, before or inside
\* the generation loop, it returns the empty string or the placeholder.
C2_FailureReturnsEmptyOrPlaceholder ==
    (Returned("generate") /\ (PreLoopFailure \/ LoopFailure)) =>
        ret_str \in {EmptyString, Placeholder}

\* C2 amended: a failure found before the generation loop returns the empty
\* string or the placeholder; a failure inside the loop ends the loop and
\* the call returns the pieces appended up to then.
C2_FailureReturn ==
    Returned("generate") =>
        /\ PreLoopFailure => ret_str \in {EmptyString, Placeholder}
        /\ LoopFailure => ret_str = Appended

\* a decode failure in the loop after a piece was appended
C2_Witness ==
    /\ Returned("generate")
    /\ LoopFailure
    /\ ret_str # EmptyString
    /\ ret_str # Placeholder

\* C3 as stated: the tokens sampled and the pieces appended never exceed
\* the caller's max_tokens nor the limit in effect, and the loop stops at
\* the first end-of-generation token, failed conversion or decode, or at
\* the limit.  (Read once the context-length check has set the limit.)
C3_LimitNeverExceeded ==
    (fn = "generate" /\ Idx("llama_n_ctx") # {}) =>
        /\ Count("llama_sampler_sample") <= arg_max_tokens
        /\ Len(Appended) <= arg_max_tokens
        /\ Count("llama_sampler_sample") <= max_tokens
        /\ Len(Appended) <= max_tokens

\* C3 amended: the tokens sampled and the pieces appended never exceed the
\* caller's max_tokens nor the limit in effect when these are non-negative,
\* and are none when they are negative; the limit in effect is never above
\* the caller's; no token is sampled after the first end-of-generation
\* token, failed conversion or failed decode, and a call that returns
\* without any of these has sampled exactly the limit.
C3_LimitBoundsGeneration ==
    fn = "generate" =>
        /\ max_tokens <= arg_max_tokens
        /\ Count("llama_sampler_sample") <= Max0(max_tokens)
        /\ Len(Appended) <= Max0(max_tokens)
        /\ Len(result) <= Max0(max_tokens)
        /\ \A k \in DOMAIN trace :
            StopEvent(k) => \A j \in Idx("llama_sampler_sample") : j <= k
        /\ (pc = "idle" /\ Idx("reserve") # {}
                /\ ~\E k \in DOMAIN trace : StopEvent(k)) =>
            Count("llama_sampler_sample") = max_tokens

\* the lowered limit is reached
C3_Witness ==
    /\ Returned("generate")
    /\ max_tokens < arg_max_tokens
    /\ max_tokens > 0
    /\ Count("llama_sampler_sample") = max_tokens
    /\ Len(ret_str) = max_tokens

\* C4: after nativeDestroy of a non-zero handle returns, the model, the
\* sampler, every context ever created and the wrapper have each been freed
\* exactly once, and llama_backend_free was called as often as
\* llama_backend_init.
C4_AllFreedOnce ==
    (Returned("destroy") /\ arg_handle # 0) =>
        /\ \A id \in DOMAIN heap : heap[id].frees = 1
        /\ backend[1] = backend[2]

\* destroy after a generate that created a context
C4_Witness ==
    /\ Returned("destroy")
    /\ arg_handle # 0
    /\ Cardinality(CtxObjects) >= 2
    /\ \E id \in DOMAIN heap : heap[id].kind = "wrapper"

\* C5: nativeInit returns a non-zero handle only when the file open, the
\* model load and the context creation succeeded; when it returns 0 every
\* object created in the call has been freed and llama_backend_free was
\* called as often as llama_backend_init, neither when the file cannot be
\* opened.
C5_InitReleasesOnFailure ==
    Returned("init") =>
        /\ ret # 0 =>
            \A f \in {"fopen", "llama_model_load_from_file",
                      "llama_init_from_model"} :
                \E k \in Idx(f) : trace[k].res # 0
        /\ ret = 0 =>
            /\ \A id \in DOMAIN heap :
                   heap[id].born = callNo => heap[id].frees = 1
            /\ Count("llama_backend_free") = Count("llama_backend_init")
            /\ backend[1] = backend[2]
            /\ (\E k \in Idx("fopen") : trace[k].res = 0) =>
                   Count("llama_backend_init") = 0
            /\ handle = 0

\* the context could not be created for a loaded model
C5_Witness ==
    /\ Returned("init")
    /\ ret = 0
    /\ \E id \in DOMAIN heap : heap[id].born = callNo /\ heap[id].kind = "model"

\* the steps C6 puts in order, and when each one has succeeded
OrderedSteps ==
    {"fopen", "llama_backend_init", "llama_model_load_from_file",
     "llama_init_from_model", "llama_sampler_chain_init",
     "llama_new_context_with_model", "llama_model_get_vocab",
     "llama_tokenize", "llama_decode", "llama_sampler_sample",
     "llama_token_to_piece"}

Steps == SelectSeq(trace, LAMBDA e : e.fn \in OrderedSteps)

Succeeded(e) ==
    CASE e.fn = "llama_backend_init" -> TRUE
      [] e.fn = "llama_tokenize" -> IF e.n = 0 THEN -e.res > 0 ELSE e.res = e.n
      [] e.fn = "llama_decode" -> e.res = 0
      [] e.fn = "llama_sampler_sample" -> e.res # EogToken
      [] e.fn = "llama_token_to_piece" -> e.res >= 0
      [] OTHER -> e.res # 0

\* b is the step the fixed sequence puts right after a
FollowsInOrder(a, b) ==
    \/ a.fn = "fopen" /\ b.fn = "llama_backend_init"
    \/ a.fn = "llama_backend_init" /\ b.fn = "llama_model_load_from_file"
    \/ a.fn = "llama_model_load_from_file" /\ b.fn = "llama_init_from_model"
    \/ a.fn = "llama_init_from_model" /\ b.fn = "llama_sampler_chain_init"
    \/ a.fn = "llama_new_context_with_model" /\ b.fn = "llama_model_get_vocab"
    \/ a.fn = "llama_model_get_vocab" /\ b.fn = "llama_tokenize" /\ b.n = 0
    \/ a.fn = "llama_tokenize" /\ a.n = 0 /\ b.fn = "llama_tokenize" /\ b.n > 0
    \/ a.fn = "llama_tokenize" /\ a.n > 0 /\ b.fn = "llama_decode"
    \/ a.fn = "llama_decode" /\ b.fn = "llama_sampler_sample"
    \/ a.fn = "llama_sampler_sample" /\ b.fn = "llama_token_to_piece"
    \/ a.fn = "llama_token_to_piece" /\ b.fn = "llama_decode"

ZeroHandleStep ==
    (fn' \in {"generate", "destroy"} /\ arg_handle' = 0) =>
        /\ trace' = << >>
        /\ heap' = heap
        /\ wrapper' = wrapper
        /\ backend' = backend
        /\ handle' = handle
        /\ pc' \in {"gen_check", "destroy_check", "idle"}
        /\ (pc' = "idle" /\ fn' = "generate") => ret_str' = EmptyString

\* C7: with handle 0, nativeGenerate returns the empty string and
\* nativeDestroy returns at once; neither calls a library function nor
\* creates, frees or changes a resource.
C7_ZeroHandleSafe == [][ZeroHandleStep]_vars

\* a zero-handle call returned while the host holds a live wrapper
C7_Witness ==
    /\ pc = "idle"
    /\ fn \in {"generate", "destroy"}
    /\ arg_handle = 0
    /\ handle # 0
    /\ callNo >= 2

\* C8: after the context-length check, for every n_prompt_tokens >= 1 and
\* every max_tokens argument, 0 <= max_tokens and n_prompt_tokens +
\* max_tokens <= n_ctx, so max_tokens * 4 is non-negative and does not
\* overflow.
C8_LimitFitsContext ==
    (pc = "gen_tokenize_fill" /\ n_prompt_tokens >= 1) =>
        /\ 0 <= max_tokens
        /\ max_tokens <= N_CTX - n_prompt_tokens
        /\ ~Mul4Overflows(max_tokens)

\* C9: the prompt is decoded only if the buffer-filling llama_tokenize
\* returned exactly n_prompt_tokens; after any other result the call makes
\* no decode and no sample call.
C9_DecodeOnlyAfterExactFill ==
    fn = "generate" =>
        \A k \in DOMAIN trace :
            trace[k].fn \in CtxUsers =>
                \E j \in Fills : j < k /\ trace[j].res = n_prompt_tokens

\* C10: on every return of nativeInit and nativeGenerate a non-null string
\* from GetStringUTFChars has been released exactly once, and it is never
\* read after its release.
C10_StringReleasedOnce ==
    /\ ~strStat.bad
    /\ strStat.rel <= 1
    /\ (pc = "idle" /\ fn \in {"init", "generate"}
            /\ str \in {"held", "released"}) =>
        /\ strStat.rel = 1
        /\ str = "released"
    /\ str \in {"none", "null"} => strStat.rel = 0

\* a generate call that read the prompt, released it and ran to the loop
C10_Witness ==
    /\ Returned("generate")
    /\ str = "released"
    /\ Count("llama_sampler_sample") > 0
====
